---- MODULE Spec2Model ----
(***************************************************************************)
(* Model of the V2X simulation engine (cli/simulationRunner.js and its     *)
(* collaborators cli/udpSender.js, cli/geoUtils.js, cli/logger.js and the  *)
(* entry point cli/cli-sim.js).                                            *)
(*                                                                         *)
(* JavaScript values are modelled as follows.                              *)
(*   - An optional property is a sequence of length 0 or 1: <<>> is a      *)
(*     missing property (undefined), <<x>> is the property with value x.   *)
(*   - Coordinates are integers; the quotients the interpolation forms     *)
(*     are exact rationals [n, d] in lowest terms, so that the arithmetic  *)
(*     of the code is kept and only floating-point rounding is left out.   *)
(*   - Each await is a place where a driver stops; the code between two    *)
(*     awaits is one step.                                                 *)
(***************************************************************************)
EXTENDS Integers, Sequences, FiniteSets, TLC

VARIABLES
    scenario,   \* the parsed scenario: [vehicles, savedPaths]
    options,    \* the options of runSimulation: [freq, repeat]
    mainPc,     \* the position of main / runSimulation
    r,          \* the loop variable of runSimulation
    drivers,    \* per vehicle of the scenario: the state of its runVehicle call
    call,       \* a call of a pure function under check: its arguments and result
    stream      \* the lines written to the logger's stream, in the order written

vars == <<scenario, options, mainPc, r, drivers, call, stream>>

\* ------------------------------------------------------------------ bounds

\* The largest hop count of a waypoint.
MaxHops == 2
\* The largest repeat count of a run.
MaxRepeat == 2
\* The largest coordinate (degrees) of a waypoint given to interpolateSegment.
MaxCoord == 2
\* The largest number of entries of a saved-path table given to resolvePath.
MaxSaved == 2

\* ------------------------------------------------------------ JS values

\* The element of a one-element set. The({F(x) : x \in {e}}) is F(e) with e
\* evaluated once, the way a const binding holds a value.
The(S) == CHOOSE y \in S : TRUE

None == <<>>
Some(x) == <<x>>

\* `x || d` for a numeric optional property: undefined and 0 are falsy.
OrDefault(x, d) == IF x = None \/ x[1] = 0 THEN d ELSE x[1]

Abs(n) == IF n < 0 THEN -n ELSE n

RECURSIVE GCD(_, _)
GCD(a, b) == IF b = 0 THEN a ELSE The({GCD(b, m) : m \in {a % b}})

\* The rational n/d (d # 0) in lowest terms with a positive denominator.
Rat(n, d) ==
    The({IF d < 0 THEN [n |-> (-n) \div g, d |-> (-d) \div g]
                   ELSE [n |-> n \div g, d |-> d \div g] :
            g \in {GCD(Abs(n), Abs(d))}})

RatOfInt(i) == [n |-> i, d |-> 1]
RatMulInt(q, i) == The({Rat(a.n * i, a.d) : a \in {q}})
RatAdd(p, q) == The({Rat(a.n * b.d + b.n * a.d, a.d * b.d) : a \in {p}, b \in {q}})

\* ---------------------------------------------------------------- geoUtils

\* The bearing is a trigonometric function of the four coordinates; it is kept
\* as the term of its arguments.
getBearing(lat1, lng1, lat2, lng2) == <<"bearing", lat1, lng1, lat2, lng2>>

\* ------------------------------------------------------------- resolvePath

\* A length test that lets a path of one waypoint through (length >= 1).
IsUsablePathNonEmpty(p) == p # None /\ Len(p[1]) >= 1

\* Array.isArray(p) && p.length >= 2, for an optional array property p.
IsUsablePath(p) == p # None /\ Len(p[1]) >= 2

\* The predicate of savedPaths.find.
MatchesVehicle(sp, vehicle) ==
    sp.vehicle_id = Some(vehicle.id) \/ sp.vehicleId = Some(vehicle.id)

\* A find that returns the last matching entry.
FindMatchLast(savedPaths, vehicle) ==
    LET idx == {i \in 1..Len(savedPaths) : MatchesVehicle(savedPaths[i], vehicle)}
    IN  IF idx = {} THEN 0 ELSE CHOOSE i \in idx : \A j \in idx : i >= j

\* Array.prototype.find: the index of the first matching entry, 0 when none.
FindMatch(savedPaths, vehicle) ==
    LET idx == {i \in 1..Len(savedPaths) : MatchesVehicle(savedPaths[i], vehicle)}
    IN  IF idx = {} THEN 0 ELSE CHOOSE i \in idx : \A j \in idx : i <= j

\* A resolvePath that asks the saved-path table first.
resolvePathSavedFirst(vehicle, savedPaths) ==
    LET i == FindMatch(savedPaths, vehicle)
    IN  IF i # 0 /\ IsUsablePath(savedPaths[i].path) THEN savedPaths[i].path
        ELSE IF IsUsablePath(vehicle.path) THEN vehicle.path
        ELSE None

\* resolvePath(vehicle, savedPaths): the path (Some) or null (None).
resolvePath(vehicle, savedPaths) ==
    IF IsUsablePath(vehicle.path) THEN vehicle.path
    ELSE LET i == FindMatch(savedPaths, vehicle)
         IN  IF i # 0 /\ IsUsablePath(savedPaths[i].path) THEN savedPaths[i].path
             ELSE None

\* ------------------------------------------------------ interpolateSegment

\* A default that is applied to a missing hops only (to.hops ?? 1).
HopsNullish(to) == IF to.hops = None THEN 1 ELSE to.hops[1]

\* to.hops || 1
HopsOf(to) == OrDefault(to.hops, 1)

\* to.v2x || {}
NoV2x ==
    [velocityKmh |-> None, eebl |-> None, lightBar |-> None, siren |-> None,
     flasher |-> None, foglight |-> None, drl |-> None, wiper |-> None,
     leftSignal |-> None, rightSignal |-> None]
V2xOf(to) == IF to.v2x = None THEN NoV2x ELSE to.v2x[1]

\* A frequency that is the caller's for every segment.
SegFreqDefaultOnly(to, freq) == freq

\* to.freq || freq
SegFreq(to, freq) == OrDefault(to.freq, freq)

\* A tick that carries the speed and the v2x of the departure waypoint.
TickOfFromMeta(from, to, freq, latStep, lngStep, t) ==
    [lat |-> RatAdd(RatOfInt(from.lat), RatMulInt(latStep, t)),
     lng |-> RatAdd(RatOfInt(from.lng), RatMulInt(lngStep, t)),
     speed |-> OrDefault(V2xOf(from).velocityKmh, 0),
     heading |-> getBearing(from.lat, from.lng, to.lat, to.lng),
     v2x |-> V2xOf(from),
     interval |-> Rat(1000, SegFreq(to, freq))]

\* The tick of loop variable t, given the per-tick deltas latStep and lngStep.
TickOf(from, to, freq, latStep, lngStep, t) ==
    [lat |-> RatAdd(RatOfInt(from.lat), RatMulInt(latStep, t)),
     lng |-> RatAdd(RatOfInt(from.lng), RatMulInt(lngStep, t)),
     speed |-> OrDefault(V2xOf(to).velocityKmh, 0),
     heading |-> getBearing(from.lat, from.lng, to.lat, to.lng),
     v2x |-> V2xOf(to),
     interval |-> Rat(1000, SegFreq(to, freq))]

\* A loop whose variable starts at 0.
TickAtFromZero(from, to, freq, t) ==
    The({TickOf(from, to, freq, latStep, lngStep, t - 1) :
            latStep \in {Rat(to.lat - from.lat, HopsOf(to))},
            lngStep \in {Rat(to.lng - from.lng, HopsOf(to))}})

\* The value yielded for the loop variable t: latStep and lngStep are the
\* coordinate differences divided by totalTicks.
TickAt(from, to, freq, t) ==
    The({TickOf(from, to, freq, latStep, lngStep, t) :
            latStep \in {Rat(to.lat - from.lat, HopsOf(to))},
            lngStep \in {Rat(to.lng - from.lng, HopsOf(to))}})

\* The sequence the generator yields: t = 1 .. totalTicks.
interpolateSegment(from, to, freq) ==
    [t \in 1..HopsOf(to) |-> TickAt(from, to, freq, t)]

\* --------------------------------------------------------------- udpSender

\* Buffer.alloc(72)
PacketSize == 72

\* `if (x)` for an optional boolean property.
Truthy(x) == x # None /\ x[1]

\* a | b on non-negative integers.
RECURSIVE BitOr(_, _)
BitOr(a, b) ==
    IF a = 0 THEN b
    ELSE IF b = 0 THEN a
    ELSE (IF a % 2 = 1 \/ b % 2 = 1 THEN 1 ELSE 0) + 2 * BitOr(a \div 2, b \div 2)

\* A bitfield in which the turn signals are flags too (bits 6 and 7).
FlagsWithSignals(v2x) ==
    LET f1 == IF Truthy(v2x.eebl) THEN BitOr(0, 1) ELSE 0
        f2 == IF Truthy(v2x.lightBar) THEN BitOr(f1, 2) ELSE f1
        f3 == IF Truthy(v2x.siren) THEN BitOr(f2, 4) ELSE f2
        f4 == IF Truthy(v2x.flasher) THEN BitOr(f3, 8) ELSE f3
        f5 == IF Truthy(v2x.foglight) THEN BitOr(f4, 16) ELSE f4
        f6 == IF Truthy(v2x.drl) THEN BitOr(f5, 32) ELSE f5
        f7 == IF Truthy(v2x.leftSignal) THEN BitOr(f6, 64) ELSE f6
    IN  IF Truthy(v2x.rightSignal) THEN BitOr(f7, 128) ELSE f7

\* let flags = 0; if (v2x.eebl) flags |= 1; ... if (v2x.drl) flags |= 32;
FlagsOf(v2x) ==
    LET f1 == IF Truthy(v2x.eebl) THEN BitOr(0, 1) ELSE 0
        f2 == IF Truthy(v2x.lightBar) THEN BitOr(f1, 2) ELSE f1
        f3 == IF Truthy(v2x.siren) THEN BitOr(f2, 4) ELSE f2
        f4 == IF Truthy(v2x.flasher) THEN BitOr(f3, 8) ELSE f3
        f5 == IF Truthy(v2x.foglight) THEN BitOr(f4, 16) ELSE f4
    IN  IF Truthy(v2x.drl) THEN BitOr(f5, 32) ELSE f5

\* Byte k (0..7) of the little-endian float64 of x; the encoding is kept as
\* the term of the number it encodes.
Float64LE(x, k) == <<"f64le", x, k>>

\* Byte k (0..1) of the little-endian uint16 of n.
UInt16LE(n, k) == IF k = 0 THEN n % 256 ELSE (n \div 256) % 256

\* buildPacket throws when a field does not fit its slot: writeUInt8 of the
\* wiper level (v2x.wiper || 0) outside 0..255.
buildPacketThrows(state) == OrDefault(state.v2x.wiper, 0) \notin 0..255

\* The buffer buildPacket returns (when it does not throw), byte by byte:
\* offsets 0 .. PacketSize - 1; the bytes no write touches stay 0.
buildPacket(state) ==
    [off \in 0..(PacketSize - 1) |->
        IF off < 8 THEN Float64LE(state.lat, off)
        ELSE IF off < 16 THEN Float64LE(state.lng, off - 8)
        ELSE IF off < 24 THEN Float64LE(state.speed, off - 16)
        ELSE IF off < 32 THEN Float64LE(state.heading, off - 24)
        ELSE IF off < 40 THEN Float64LE("now", off - 32)
        ELSE IF off < 42 THEN UInt16LE(FlagsOf(state.v2x), off - 40)
        ELSE IF off = 42 THEN OrDefault(state.v2x.wiper, 0)
        ELSE IF off = 43 THEN (IF Truthy(state.v2x.leftSignal) THEN 1 ELSE 0)
        ELSE IF off = 44 THEN (IF Truthy(state.v2x.rightSignal) THEN 1 ELSE 0)
        ELSE 0]

\* --------------------------------------------------------------- runVehicle

\* `x || false` for an optional boolean property.
OrFalse(x) == x # None /\ x[1]

\* The locals of a runVehicle call and what it has done so far:
\*   pc, vPath, seg, t   its position; t is the loop variable of the generator;
\*   sender, sock        the UdpSender it created and the state of its socket;
\*   state, sentOn       the state and the sender of its last sender.send call;
\*   timer               the delay (ms) of the sleep it is awaiting;
\*   attempts, settled, logged, paced, closeCalls      counts of this call;
\*   totalAttempts, transmitted, released, created, log, anyOk, anyErr,
\*   lateSend            counts and records over all calls for the vehicle.
IdleDriver ==
    [pc |-> "idle", vPath |-> <<>>, seg |-> 0, t |-> 0, sock |-> "none",
     attempts |-> 0, settled |-> 0, logged |-> 0, paced |-> 0,
     anyOk |-> FALSE, anyErr |-> FALSE, totalAttempts |-> 0, log |-> <<>>,
     sender |-> None, sentOn |-> None, state |-> None, timer |-> None,
     closeCalls |-> 0, created |-> <<>>, released |-> 0, transmitted |-> 0,
     lateSend |-> FALSE]

\* A Promise.all that takes a pending promise for a resolved one.
TerminalOrHung == {"done", "skipped", "hung"}

\* The positions in which the promise of runVehicle has resolved.
Terminal == {"done", "skipped"}

\* The generator of the current segment: interpolateSegment(from, to, freq)
\* with from = vPath[seg], to = vPath[seg + 1] (0-based in the code).
SegTicks(d, freq) == interpolateSegment(d.vPath[d.seg + 1], d.vPath[d.seg + 2], freq)

\* A wait taken from the destination waypoint of the segment.
SegWaitMsOfTo(d) == OrDefault(d.vPath[d.seg + 2].waitTime, 0) * 1000

\* (from.waitTime || 0) * 1000 of the current segment.
SegWaitMs(d) == OrDefault(d.vPath[d.seg + 1].waitTime, 0) * 1000

\* The state handed to sender.send for a tick.
StateOf(tick) ==
    [lat |-> tick.lat, lng |-> tick.lng, speed |-> tick.speed,
     heading |-> tick.heading, v2x |-> tick.v2x]

\* The record handed to logger.log for a tick.
LogRecord(vehicle, tick) ==
    [vehicleId |-> vehicle.id, lat |-> tick.lat, lng |-> tick.lng,
     speed |-> tick.speed, heading |-> tick.heading,
     eebl |-> OrFalse(tick.v2x.eebl), lightBar |-> OrFalse(tick.v2x.lightBar),
     siren |-> OrFalse(tick.v2x.siren), flasher |-> OrFalse(tick.v2x.flasher),
     foglight |-> OrFalse(tick.v2x.foglight), drl |-> OrFalse(tick.v2x.drl),
     wiper |-> OrDefault(tick.v2x.wiper, 0),
     leftSignal |-> OrFalse(tick.v2x.leftSignal),
     rightSignal |-> OrFalse(tick.v2x.rightSignal)]

\* logger.log(record); await sleep(tick.interval): the driver stops at the sleep.
LogAndSleep(d, vehicle, freq) ==
    The({[d EXCEPT !.log = Append(@, LogRecord(vehicle, tick)),
                   !.logged = @ + 1,
                   !.timer = Some(tick.interval),
                   !.pc = "pacing"] :
            tick \in {SegTicks(d, freq)[d.t]}})

\* A driver without the try/catch around the send.
CatchSendRethrow(outcome) == IF outcome = "ok" THEN "continue" ELSE "throw"

\* try { await sender.send(...) } catch (_) {}: every outcome continues.
CatchSend(outcome) == "continue"

\* The code after the send has settled with `outcome` ("ok", "err": the
\* callback of socket.send; "threw": buildPacket threw inside send).
AfterSend(d, vehicle, freq, outcome) ==
    The({IF CatchSend(outcome) = "continue"
         THEN LogAndSleep(e, vehicle, freq)
         ELSE [e EXCEPT !.pc = "rejected"] :
            e \in {[d EXCEPT !.settled = @ + 1,
                             !.anyOk = @ \/ outcome = "ok",
                             !.anyErr = @ \/ outcome # "ok"]}})

\* A driver that does not await the send: it logs while the send is pending.
ProcessTickNoAwait(d, vehicle, freq) ==
    LogAndSleep([d EXCEPT !.attempts = @ + 1, !.totalAttempts = @ + 1], vehicle, freq)

\* A driver that retries a tick's send once before going on.
ProcessTickRetry(d, vehicle, freq) ==
    [d EXCEPT !.pc = "sending", !.attempts = @ + 2, !.totalAttempts = @ + 2]

\* A driver that builds the packet before the try block: a throw of
\* buildPacket rejects the promise of runVehicle.
ProcessTickBuildOutsideTry(d, vehicle, freq) ==
    The({IF buildPacketThrows(e.state[1])
         THEN [e EXCEPT !.pc = "rejected"]
         ELSE [e EXCEPT !.pc = "sending", !.transmitted = @ + 1] :
            e \in {[d EXCEPT !.attempts = @ + 1, !.totalAttempts = @ + 1,
                             !.state = Some(StateOf(SegTicks(d, freq)[d.t])),
                             !.sentOn = d.sender,
                             !.lateSend = @ \/ d.sock # "open"]}})

\* The body of the tick loop up to its first await: build the state, call
\* sender.send. When buildPacket throws, the catch runs at once and the driver
\* goes on to the log and the sleep; otherwise it stops at await sender.send.
ProcessTick(d, vehicle, freq) ==
    The({IF buildPacketThrows(e.state[1])
         THEN AfterSend(e, vehicle, freq, "threw")
         ELSE [e EXCEPT !.pc = "sending", !.transmitted = @ + 1] :
            e \in {[d EXCEPT !.attempts = @ + 1, !.totalAttempts = @ + 1,
                             !.state = Some(StateOf(SegTicks(d, freq)[d.t])),
                             !.sentOn = d.sender,
                             !.lateSend = @ \/ d.sock # "open"]}})

\* The segment loop from its head (seg already set) to the first await.
RECURSIVE EnterSegment(_, _, _)
EnterSegment(d, vehicle, freq) ==
    IF d.seg >= Len(d.vPath) - 1
    THEN [d EXCEPT !.pc = "closing", !.sock = "closing",  \* await sender.close()
                   !.closeCalls = @ + 1]
    ELSE IF SegWaitMs(d) > 0
    THEN [d EXCEPT !.pc = "waiting",                      \* await sleep(waitTime)
                   !.timer = Some(RatOfInt(SegWaitMs(d)))]
    ELSE IF Len(SegTicks(d, freq)) = 0
    THEN EnterSegment([d EXCEPT !.seg = @ + 1], vehicle, freq)
    ELSE ProcessTick([d EXCEPT !.t = 1], vehicle, freq)

\* After the pre-segment wait: the tick loop of the segment.
AfterWait(d, vehicle, freq) ==
    IF Len(SegTicks(d, freq)) = 0
    THEN EnterSegment([d EXCEPT !.timer = None, !.seg = @ + 1], vehicle, freq)
    ELSE ProcessTick([d EXCEPT !.timer = None, !.t = 1], vehicle, freq)

\* After the pacing sleep: the next tick, or the next segment.
AfterPace(d, vehicle, freq) ==
    IF d.t < Len(SegTicks(d, freq))
    THEN ProcessTick([d EXCEPT !.timer = None, !.paced = @ + 1, !.t = @ + 1],
                     vehicle, freq)
    ELSE EnterSegment([d EXCEPT !.timer = None, !.paced = @ + 1, !.seg = @ + 1],
                      vehicle, freq)

\* The locals and the counters of a runVehicle call at its start.
FreshDriver(d, sock) ==
    [d EXCEPT !.vPath = <<>>, !.seg = 0, !.t = 0, !.sock = sock,
              !.attempts = 0, !.settled = 0, !.logged = 0, !.paced = 0,
              !.sender = None, !.sentOn = None, !.state = None, !.timer = None,
              !.closeCalls = 0]

\* const sender = new UdpSender(): the driver holds the new sender.
WithSender(d, sender) ==
    [d EXCEPT !.sender = Some(sender), !.created = Append(@, sender)]

\* A runVehicle that creates its sender before it resolves the path.
StartDriverOpenFirst(d, vehicle, savedPaths, freq, sender) ==
    LET vPath == resolvePath(vehicle, savedPaths)
        e == WithSender(FreshDriver(d, "open"), sender)
    IN  IF vPath = None
        THEN [e EXCEPT !.pc = "skipped"]
        ELSE EnterSegment([e EXCEPT !.vPath = vPath[1]], vehicle, freq)

\* runVehicle from its call to its first await (or to its return, when the
\* path does not resolve); `sender` is the object new UdpSender() creates.
StartDriver(d, vehicle, savedPaths, freq, sender) ==
    LET vPath == resolvePath(vehicle, savedPaths)
    IN  IF vPath = None
        THEN [FreshDriver(d, "none") EXCEPT !.pc = "skipped"]
        ELSE EnterSegment([WithSender(FreshDriver(d, "open"), sender)
                              EXCEPT !.vPath = vPath[1]],
                          vehicle, freq)

\* ------------------------------------------------------------------ Logger

\* The header the constructor writes for the csv format.
CsvHeader ==
    <<"timestamp", "vehicleId", "lat", "lng", "speed", "heading", "eebl",
      "lightBar", "siren", "flasher", "foglight", "drl", "wiper", "leftSignal",
      "rightSignal">>

\* b ? 1 : 0
Bit(b) == IF b THEN 1 ELSE 0

\* The line Logger.log writes for a record (csv): the fields in the order of
\* the header, the booleans as 0 or 1. The timestamp is the time of the call.
CsvLine(record) ==
    <<"now", record.vehicleId, record.lat, record.lng, record.speed,
      record.heading, Bit(record.eebl), Bit(record.lightBar), Bit(record.siren),
      Bit(record.flasher), Bit(record.foglight), Bit(record.drl), record.wiper,
      Bit(record.leftSignal), Bit(record.rightSignal)>>

\* A logger that writes a record in two parts, with two writes.
LoggerLogInParts(lines, record) ==
    lines \o <<SubSeq(CsvLine(record), 1, 7), SubSeq(CsvLine(record), 8, 15)>>

\* Logger.log(record): one write of the whole line at the end of the stream.
LoggerLog(lines, record) == Append(lines, CsvLine(record))

\* The calls of logger.log for a sequence of records, in their order.
RECURSIVE LogAll(_, _)
LogAll(lines, records) ==
    IF records = << >> THEN lines
    ELSE LogAll(LoggerLog(lines, Head(records)), Tail(records))

\* The records a driver has handed to logger.log between the states d and e.
NewRecords(d, e) == SubSeq(e.log, Len(d.log) + 1, Len(e.log))

\* The records the drivers i .. n have handed to logger.log between the
\* states old and new, in the order of the vehicles.
RECURSIVE RecordsFrom(_, _, _)
RecordsFrom(old, new, i) ==
    IF i > Len(new) THEN << >>
    ELSE NewRecords(old[i], new[i]) \o RecordsFrom(old, new, i + 1)

\* ------------------------------------------------------------ runSimulation

\* The senders created so far.
Senders(ds) ==
    UNION {{ds[i].created[k] : k \in DOMAIN ds[i].created} : i \in DOMAIN ds}

\* One sender object that every driver uses (a module-level singleton).
SharedSender(ds) == 1

\* new UdpSender(): an object that no earlier call has returned. Objects are
\* numbered in the order of their creation.
NewSender(ds) == Cardinality(Senders(ds)) + 1

\* The calls of runVehicle for the vehicles i .. n, one after the other.
RECURSIVE StartFrom(_, _, _, _)
StartFrom(ds, scen, opts, i) ==
    IF i > Len(scen.vehicles) THEN ds
    ELSE The({StartFrom(started, scen, opts, i + 1) :
                started \in {[ds EXCEPT ![i] = StartDriver(ds[i], scen.vehicles[i],
                                                           scen.savedPaths, opts.freq,
                                                           NewSender(ds))]}})

\* vehicles.map((v) => runVehicle(v, savedPaths, freq, logger, verbose)): every
\* driver runs to its first await, in the order of the vehicles.
StartAll(ds, scen, opts) == StartFrom(ds, scen, opts, 1)

\* A runSimulation that goes on as soon as one driver has settled
\* (Promise.race in place of Promise.all).
AllSettledRace(ds) == \E i \in DOMAIN ds : ds[i].pc \in Terminal

\* A Promise.all that never resolves when a driver returned early.
AllSettledDoneOnly(ds) == \A i \in DOMAIN ds : ds[i].pc = "done"

\* Promise.all resolves when every promise of runVehicle has resolved.
AllSettled(ds) == \A i \in DOMAIN ds : ds[i].pc \in Terminal

\* Promise.all rejects as soon as one promise of runVehicle rejects.
AnyRejected(ds) == \E i \in DOMAIN ds : ds[i].pc = "rejected"

\* ---------------------------------------------------------------- scenarios

\* --freq, default 10.
DefaultFreq == 10

WP(lat, lng, hops, freq, waitTime, v2x) ==
    [lat |-> lat, lng |-> lng, hops |-> hops, freq |-> freq,
     waitTime |-> waitTime, v2x |-> v2x]

\* A v2x object with the properties velocityKmh, eebl and wiper (each of them
\* optional) and no other property.
V2x(velocityKmh, eebl, wiper) ==
    [NoV2x EXCEPT !.velocityKmh = velocityKmh, !.eebl = eebl, !.wiper = wiper]

\* The vehicles the scenarios are made of.
\*   v1: an inline path of one segment of MaxHops ticks, and a saved path too;
\*   v2: an inline path of two segments with hops 1 and MaxHops, a wait of
\*       1 s before the first and of 2 s before the second, and a frequency
\*       of its own on the second; each waypoint has a v2x of its own;
\*   v3: an empty inline path and a saved path, whose segment has hops 0 and
\*       whose departure waypoint has waitTime 0;
\*   v4: an inline path of one waypoint and no saved path;
\*   v5: two segments without hops; the wiper level of the first does not fit
\*       one byte.
Fleet ==
    << [id |-> "v1",
        path |-> Some(<< WP(0, 0, None, None, None, None),
                         WP(1, 3, Some(MaxHops), None, None,
                            Some(V2x(Some(60), Some(TRUE), None))) >>)],
       [id |-> "v2",
        path |-> Some(<< WP(0, 0, Some(MaxHops), None, Some(1),
                            Some(V2x(Some(30), None, Some(2)))),
                         WP(2, 1, Some(1), None, Some(2),
                            Some(V2x(Some(45), Some(TRUE), None))),
                         WP(5, 5, Some(MaxHops), Some(5), Some(2),
                            Some(V2x(Some(90), Some(FALSE), Some(1)))) >>)],
       [id |-> "v3", path |-> Some(<< >>)],
       [id |-> "v4", path |-> Some(<< WP(7, 7, Some(MaxHops), None, None, None) >>)],
       [id |-> "v5",
        path |-> Some(<< WP(1, 1, None, None, None, None),
                         WP(0, 2, None, None, None,
                            Some(V2x(None, None, Some(256)))),
                         WP(0, 3, None, None, None, None) >>)] >>

SavedTable ==
    << [vehicle_id |-> Some("v1"), vehicleId |-> None,
        path |-> Some(<< WP(9, 9, None, None, None, None),
                         WP(8, 8, Some(1), None, None, None) >>)],
       [vehicle_id |-> None, vehicleId |-> Some("v3"),
        path |-> Some(<< WP(4, 0, Some(MaxHops), None, Some(0), None),
                         WP(4, 3, Some(0), None, None,
                            Some(V2x(Some(0), None, None))) >>)] >>

\* The vehicles that run together in the scenarios of two vehicles: a vehicle
\* of several ticks with a vehicle of one tick (v1 or v2 with v3), with a
\* vehicle that is skipped (v4), and with a vehicle of several ticks whose
\* first send throws (v1 with v5), and the latter with a vehicle of one tick.
Pairings == {<<1, 3>>, <<1, 4>>, <<1, 5>>, <<2, 3>>, <<2, 4>>, <<3, 5>>}

\* A scenario holds none, one or two vehicles of the fleet, in fleet order.
Scenarios ==
    LET lists == {<< >>} \cup {<<Fleet[i]>> : i \in DOMAIN Fleet}
                 \cup {<<Fleet[p[1]], Fleet[p[2]]>> : p \in Pairings}
    IN  {[vehicles |-> vs, savedPaths |-> SavedTable] : vs \in lists}

NoCall == [fn |-> "none"]

\* ------------------------------------------------------------------ actions

\* main has parsed the scenario and the options and created the logger.
InitMain ==
    /\ scenario \in Scenarios
    /\ options \in [freq : {DefaultFreq}, repeat : 1..MaxRepeat]
    /\ mainPc = "start"
    /\ r = 0
    /\ drivers = [i \in 1..Len(scenario.vehicles) |-> IdleDriver]
    /\ call = NoCall
    /\ stream = <<CsvHeader>>

\* main calls runSimulation: the loop is entered and the drivers of the first
\* repeat are started, up to await Promise.all.
RunSimulation ==
    /\ mainPc = "start"
    /\ r' = 0
    /\ IF 0 < options.repeat
       THEN /\ \E started \in {StartAll(drivers, scenario, options)} :
                /\ drivers' = started
                /\ stream' = LogAll(stream, RecordsFrom(drivers, started, 1))
            /\ mainPc' = "await"
       ELSE /\ mainPc' = "returned"
            /\ UNCHANGED <<drivers, stream>>
    /\ UNCHANGED <<scenario, options, call>>

\* await Promise.all settles: on a rejection runSimulation rejects and main's
\* catch exits the process; otherwise r++ and the next repeat starts, or
\* runSimulation returns.
RepeatSettled ==
    /\ mainPc = "await"
    /\ AnyRejected(drivers) \/ AllSettled(drivers)
    /\ IF AnyRejected(drivers)
       THEN /\ mainPc' = "exited"
            /\ UNCHANGED <<r, drivers, stream>>
       ELSE /\ r' = r + 1
            /\ IF r + 1 < options.repeat
               THEN /\ \E started \in {StartAll(drivers, scenario, options)} :
                        /\ drivers' = started
                        /\ stream' = LogAll(stream, RecordsFrom(drivers, started, 1))
                    /\ mainPc' = "await"
               ELSE /\ mainPc' = "returned"
                    /\ UNCHANGED <<drivers, stream>>
    /\ UNCHANGED <<scenario, options, call>>

\* main: await logger.close() after runSimulation has returned.
LoggerClose ==
    /\ mainPc = "returned"
    /\ mainPc' = "closed"
    /\ UNCHANGED <<scenario, options, r, drivers, call, stream>>

\* A driver that takes the waypoints off its path as it goes (vPath.shift()):
\* vPath is the array of the scenario itself, so the vehicle loses them.
ScenarioPathShifted(scen, v, d) ==
    IF d.seg > 0 /\ IsUsablePath(scen.vehicles[v].path)
    THEN [scen EXCEPT !.vehicles[v].path =
                          Some(SubSeq(d.vPath, d.seg + 1, Len(d.vPath)))]
    ELSE scen

\* The scenario after the driver of vehicle v has run up to an await and is
\* left as d. vPath, from, to and tick.v2x are references into the scenario;
\* runVehicle, interpolateSegment, buildPacket and Logger.log only read them.
ScenarioAfter(scen, v, d) == scen

\* A continuation of the driver of vehicle v runs up to its next await and
\* leaves the driver as d; the records it handed to logger.log are written.
Step(v, d) ==
    /\ mainPc # "exited"
    /\ \E e \in {d} :
        /\ drivers' = [drivers EXCEPT ![v] = e]
        /\ stream' = LogAll(stream, NewRecords(drivers[v], e))
        /\ scenario' = ScenarioAfter(scenario, v, e)
    /\ UNCHANGED <<options, mainPc, r, call>>

\* The timer of the pre-segment wait fires.
WaitElapsed(v) ==
    /\ v \in DOMAIN drivers
    /\ drivers[v].pc = "waiting"
    /\ Step(v, AfterWait(drivers[v], scenario.vehicles[v], options.freq))

\* The callback of socket.send runs, with or without an error.
SendSettled(v, outcome) ==
    /\ v \in DOMAIN drivers
    /\ drivers[v].pc = "sending"
    /\ Step(v, AfterSend(drivers[v], scenario.vehicles[v], options.freq, outcome))

\* The callback of socket.send is never called: the send call never completes
\* and the driver stays at its await for good.
SendHangs(v) ==
    /\ v \in DOMAIN drivers
    /\ drivers[v].pc = "sending"
    /\ Step(v, [drivers[v] EXCEPT !.pc = "hung"])

\* The timer of the pacing sleep fires.
PaceElapsed(v) ==
    /\ v \in DOMAIN drivers
    /\ drivers[v].pc = "pacing"
    /\ Step(v, AfterPace(drivers[v], scenario.vehicles[v], options.freq))

\* The callback of socket.close runs: runVehicle returns.
SenderClosed(v) ==
    /\ v \in DOMAIN drivers
    /\ drivers[v].pc = "closing"
    /\ Step(v, [drivers[v] EXCEPT !.pc = "done", !.sock = "closed",
                                  !.released = @ + 1])

\* --------------------------------------------------- resolvePath on its own

\* Waypoints that tell the paths apart: tag k stands for a waypoint of path k.
Tagged(k) == WP(k, k, None, None, None, None)

\* The inline path: missing, empty, one waypoint, two waypoints.
InlinePaths ==
    {None, Some(<< >>), Some(<<Tagged(1)>>), Some(<<Tagged(1), Tagged(1)>>)}

\* The path of a saved entry: missing, one waypoint, two or three waypoints.
SavedEntryPaths ==
    {None, Some(<<Tagged(2)>>), Some(<<Tagged(3), Tagged(3)>>),
     Some(<<Tagged(4), Tagged(4), Tagged(4)>>)}

\* A saved entry carries its key as vehicle_id, as vehicleId, or not at all.
SavedEntries ==
    [vehicle_id : {None, Some("a"), Some("b")}, vehicleId : {None, Some("a")},
     path : SavedEntryPaths]

RECURSIVE SeqsUpTo(_, _)
SeqsUpTo(S, n) ==
    IF n = 0 THEN {<< >>}
    ELSE LET shorter == SeqsUpTo(S, n - 1)
         IN  shorter \cup {Append(q, x) : q \in {p \in shorter : Len(p) = n - 1}, x \in S}

InitOther ==
    /\ scenario = [vehicles |-> << >>, savedPaths |-> << >>]
    /\ options = [freq |-> DefaultFreq, repeat |-> 1]
    /\ mainPc = "none"
    /\ r = 0
    /\ drivers = << >>
    /\ stream = << >>

InitResolve ==
    /\ InitOther
    /\ call \in {[fn |-> "resolvePath", state |-> "called", result |-> None,
                  vehicle |-> [id |-> "a", path |-> p], savedPaths |-> t] :
                    p \in InlinePaths, t \in SeqsUpTo(SavedEntries, MaxSaved)}

\* resolvePath returns.
ResolveReturn ==
    /\ call.fn = "resolvePath"
    /\ call.state = "called"
    /\ call' = [call EXCEPT !.state = "returned",
                            !.result = resolvePath(call.vehicle, call.savedPaths)]
    /\ UNCHANGED <<scenario, options, mainPc, r, drivers, stream>>

\* ------------------------------------------ interpolateSegment on its own

Coords == -1..MaxCoord

\* to.hops: missing, 0, 1..MaxHops.
HopsValues == {None, Some(0)} \cup {Some(h) : h \in 1..MaxHops}

FromWaypoints ==
    {WP(lat, lng, hops, None, None, Some(V2x(Some(20), Some(TRUE), None))) :
        lat \in Coords, lng \in {0}, hops \in {None, Some(MaxHops + 1)}}

ToWaypoints ==
    {WP(lat, lng, hops, freq, None, v2x) :
        lat \in Coords, lng \in Coords, hops \in HopsValues,
        freq \in {None, Some(0), Some(5)},
        v2x \in {None, Some(V2x(Some(60), None, Some(1)))}}

\* The frequency the caller passes: the default of the command line, or 4.
CallerFreqs == {DefaultFreq, 4}

InitInterp ==
    /\ InitOther
    /\ call \in {[fn |-> "interpolateSegment", state |-> "suspended", t |-> 1,
                  yielded |-> << >>, from |-> f, to |-> w, freq |-> q] :
                    f \in FromWaypoints, w \in ToWaypoints, q \in CallerFreqs}

\* The generator is resumed: the loop yields the next tick, or ends.
GenNext ==
    /\ call.fn = "interpolateSegment"
    /\ call.state = "suspended"
    /\ IF call.t <= HopsOf(call.to)
       THEN call' = [call EXCEPT
                        !.yielded = Append(@, TickAt(call.from, call.to, call.freq, call.t)),
                        !.t = @ + 1]
       ELSE call' = [call EXCEPT !.state = "done"]
    /\ UNCHANGED <<scenario, options, mainPc, r, drivers, stream>>

\* --------------------------------------------------- buildPacket on its own

\* An indicator flag: missing, false, true.
FlagValues == {None, Some(FALSE), Some(TRUE)}

\* The v2x objects given to buildPacket: every combination of the six
\* indicator flags, the turn signals on or missing, and a wiper level that
\* is missing, fits its byte (3) or does not (256).
V2xStates ==
    [velocityKmh : {None}, eebl : FlagValues, lightBar : FlagValues,
     siren : FlagValues, flasher : FlagValues, foglight : FlagValues,
     drl : FlagValues, wiper : {None, Some(3), Some(256)},
     leftSignal : {None, Some(TRUE)}, rightSignal : {None, Some(TRUE)}]

InitBuild ==
    /\ InitOther
    /\ call \in {[fn |-> "buildPacket", state |-> "called", result |-> None,
                  arg |-> [lat |-> 1, lng |-> 2, speed |-> 60,
                           heading |-> getBearing(0, 0, 1, 2), v2x |-> x]] :
                    x \in V2xStates}

\* buildPacket returns its buffer, or throws out of writeUInt8.
BuildReturn ==
    /\ call.fn = "buildPacket"
    /\ call.state = "called"
    /\ IF buildPacketThrows(call.arg)
       THEN call' = [call EXCEPT !.state = "threw"]
       ELSE call' = [call EXCEPT !.state = "returned",
                                 !.result = Some(buildPacket(call.arg))]
    /\ UNCHANGED <<scenario, options, mainPc, r, drivers, stream>>

\* ------------------------------------------------------------ specification

\* Either main runs a simulation, or resolvePath, interpolateSegment or
\* buildPacket is called on its own (as the tests of the repository do).
Init == InitMain \/ InitResolve \/ InitInterp \/ InitBuild

\* The steps of a simulation run.
MainNext ==
    \/ RunSimulation
    \/ RepeatSettled
    \/ LoggerClose
    \/ \E v \in DOMAIN drivers : WaitElapsed(v)
    \/ \E v \in DOMAIN drivers : \E outcome \in {"ok", "err"} : SendSettled(v, outcome)
    \/ \E v \in DOMAIN drivers : PaceElapsed(v)
    \/ \E v \in DOMAIN drivers : SenderClosed(v)

Next ==
    \/ MainNext
    \/ ResolveReturn
    \/ GenNext
    \/ BuildReturn

Spec == Init /\ [][Next]_vars

\* The positions of the vehicles in a scenario.
Slots == {1, 2}

\* Every timer fires, every callback of socket.send and of socket.close runs,
\* and the continuations of main and runSimulation run when they can.
Fairness ==
    /\ WF_vars(RunSimulation)
    /\ WF_vars(RepeatSettled)
    /\ WF_vars(LoggerClose)
    /\ \A v \in Slots :
        /\ WF_vars(WaitElapsed(v))
        /\ WF_vars(\E outcome \in {"ok", "err"} : SendSettled(v, outcome))
        /\ WF_vars(PaceElapsed(v))
        /\ WF_vars(SenderClosed(v))

\* A simulation run in which every pending timer and callback comes to run.
FairSpec == InitMain /\ [][MainNext]_vars /\ Fairness

\* The steps of a simulation run in which send calls may hang.
HangNext ==
    \/ MainNext
    \/ \E v \in DOMAIN drivers : SendHangs(v)

\* A simulation run in which every timer fires and every callback that is
\* called at all comes to run, but a send call may never complete.
HangSpec == InitMain /\ [][HangNext]_vars /\ Fairness

\* ------------------------------------------------------------------ claims

Vehicle(v) == scenario.vehicles[v]
Resolved(v) == resolvePath(Vehicle(v), scenario.savedPaths)
Returned == mainPc \in {"returned", "closed"}

\* The ticks of the segment into `to`: its hops, 1 when hops is missing or 0.
TicksInto(to) == IF to.hops = None \/ to.hops[1] = 0 THEN 1 ELSE to.hops[1]

PositiveHops(path) == \A i \in 2..Len(path) : path[i].hops # None /\ path[i].hops[1] > 0

\* The sum of the hops written on the waypoints 2 .. n of a path.
RECURSIVE SumOfHopsTo(_, _)
SumOfHopsTo(path, n) == IF n < 2 THEN 0 ELSE path[n].hops[1] + SumOfHopsTo(path, n - 1)
SumOfHops(path) == SumOfHopsTo(path, Len(path))

\* The ticks of the segments into the waypoints 2 .. n of a path.
RECURSIVE TicksOfPathTo(_, _)
TicksOfPathTo(path, n) == IF n < 2 THEN 0 ELSE TicksInto(path[n]) + TicksOfPathTo(path, n - 1)
TicksOfPath(path) == TicksOfPathTo(path, Len(path))

\* The ticks of the segments into the waypoints 2 .. n of a path, in order.
RECURSIVE PathTicksTo(_, _, _)
PathTicksTo(path, freq, n) ==
    IF n < 2 THEN << >>
    ELSE PathTicksTo(path, freq, n - 1) \o interpolateSegment(path[n - 1], path[n], freq)
PathTicks(path, freq) == PathTicksTo(path, freq, Len(path))

\* C1: within one vehicle's run the ticks are strictly ordered. Counting the
\* driver's send attempts, settled sends, log records and elapsed pacing
\* sleeps, at every moment and under every interleaving with the other
\* drivers: paced <= logged <= settled <= attempts <= paced + 1, so the send
\* of tick t+1 begins only after tick t was sent, logged and paced; while a send
\* is pending its tick is not logged yet, and while the driver paces a tick
\* that tick's send has settled and its record is in the log.
C1_TicksStrictlyOrdered ==
    \A v \in DOMAIN drivers :
        LET d == drivers[v]
        IN  /\ d.paced <= d.logged
            /\ d.logged <= d.settled
            /\ d.settled <= d.attempts
            /\ d.attempts <= d.paced + 1
            /\ d.pc = "sending" => d.settled = d.attempts - 1 /\ d.logged = d.settled
            /\ d.pc = "pacing" => d.logged = d.attempts /\ d.paced = d.attempts - 1
            /\ Len(d.log) <= d.totalAttempts

\* C1 witness: a driver's second send is pending while another driver is in
\* the middle of its own run.
C1_Witness ==
    \E v, w \in DOMAIN drivers :
        /\ v # w
        /\ drivers[v].pc = "sending" /\ drivers[v].attempts = 2
        /\ drivers[w].pc \in {"sending", "pacing"} /\ drivers[w].attempts >= 1

\* C2: repeats never overlap. The step that starts the drivers of the next
\* repeat (r grows and runSimulation awaits again) is taken only when every
\* driver of the current repeat is Done or Skipped; when runSimulation has
\* returned every driver is Done or Skipped, and from then on no driver
\* changes: nothing is sent or logged any more.
C2_RepeatsNeverOverlap ==
    /\ [][(r' # r /\ mainPc' = "await")
            => \A v \in DOMAIN drivers : drivers[v].pc \in Terminal]_vars
    /\ [](Returned => \A v \in DOMAIN drivers : drivers[v].pc \in Terminal)
    /\ [][Returned => drivers' = drivers]_vars

\* C2 witness: the second repeat is running with two drivers, one of which
\* has already logged ticks of the first repeat.
C2_Witness ==
    /\ mainPc = "await" /\ r = 1
    /\ Len(drivers) = 2
    /\ \E v \in DOMAIN drivers :
        /\ drivers[v].pc = "sending"
        /\ drivers[v].totalAttempts > drivers[v].attempts

\* C3: a vehicle whose resolved path has positive hop counts on all its
\* segments makes, in one repeat, exactly one send attempt and one log record
\* per tick: when its driver is Done, attempts = settled sends = log records =
\* the sum of the hops; when runSimulation has returned, its send attempts and
\* its log records over the run are repeat times that sum.
C3_OneSendOneLogPerTick ==
    \A v \in DOMAIN drivers :
        (Resolved(v) # None /\ PositiveHops(Resolved(v)[1])) =>
            LET d == drivers[v]
                n == SumOfHops(Resolved(v)[1])
            IN  /\ d.pc = "done" =>
                    d.attempts = n /\ d.settled = n /\ d.logged = n
                /\ Returned =>
                    d.totalAttempts = options.repeat * n
                    /\ Len(d.log) = options.repeat * n

\* C3 witness: a run of two repeats has returned, with a vehicle of two
\* segments that made 2 * (1 + MaxHops) send attempts.
C3_Witness ==
    /\ Returned /\ options.repeat = 2
    /\ \E v \in DOMAIN drivers :
        /\ Len(drivers[v].vPath) = 3
        /\ PositiveHops(drivers[v].vPath)
        /\ drivers[v].totalAttempts = 2 * (1 + MaxHops)
        /\ Len(drivers[v].log) = 2 * (1 + MaxHops)

\* C4: a failed send is absorbed per tick. No driver ever rejects and
\* runSimulation never rejects; a driver that has had a failed send has logged
\* every tick whose send has settled, and when it is Done it has logged every
\* tick of its path and released its handle; when runSimulation has returned,
\* every vehicle with a path has logged all its ticks of all repeats, whatever
\* failed in the other drivers.
C4_SendFailureAbsorbed ==
    /\ mainPc # "exited"
    /\ \A v \in DOMAIN drivers :
        LET d == drivers[v]
        IN  /\ d.pc # "rejected"
            /\ d.anyErr =>
                /\ d.pc \in {"waiting", "sending", "pacing", "closing", "done"}
                /\ d.logged = d.settled
                /\ d.pc = "done" =>
                    d.logged = TicksOfPath(d.vPath) /\ d.sock = "closed"
            /\ (Returned /\ Resolved(v) # None) =>
                /\ d.pc = "done"
                /\ Len(d.log) = options.repeat * TicksOfPath(Resolved(v)[1])

\* C4 witness: runSimulation has returned after a vehicle had a failed send
\* on its socket, next to a vehicle all of whose sends succeeded.
C4_Witness ==
    /\ Returned
    /\ \E v, w \in DOMAIN drivers :
        /\ v # w
        /\ drivers[v].anyErr /\ drivers[v].anyOk /\ drivers[v].pc = "done"
        /\ drivers[w].anyOk /\ ~drivers[w].anyErr /\ drivers[w].pc = "done"

\* C5: a vehicle whose path does not resolve is skipped: once started its
\* driver is Skipped, it has no transport handle, no send attempt and no log
\* record, and nothing rejects; when runSimulation has returned, every other
\* vehicle of the scenario is Done with all its ticks logged.
C5_UnresolvedIsSkipped ==
    /\ mainPc # "exited"
    /\ \A v \in DOMAIN drivers :
        Resolved(v) = None =>
            /\ drivers[v].pc \in {"idle", "skipped"}
            /\ mainPc # "start" => drivers[v].pc = "skipped"
            /\ drivers[v].sock = "none"
            /\ drivers[v].totalAttempts = 0
            /\ drivers[v].log = << >>
            /\ Returned =>
                \A w \in DOMAIN drivers :
                    Resolved(w) # None =>
                        /\ drivers[w].pc = "done"
                        /\ Len(drivers[w].log)
                             = options.repeat * TicksOfPath(Resolved(w)[1])

\* C5 witness: runSimulation has returned with one vehicle skipped and
\* another one Done with its ticks logged.
C5_Witness ==
    /\ Returned
    /\ \E v, w \in DOMAIN drivers :
        /\ drivers[v].pc = "skipped"
        /\ drivers[w].pc = "done" /\ Len(drivers[w].log) >= 2

\* C6: when every send call completes and every timer fires, runSimulation
\* eventually returns without an error, whatever the scenario and the repeat
\* count, also when every vehicle is skipped or every send fails.
C6_RunSimulationReturns == (mainPc = "start") ~> Returned

\* C6 witness: a run of two repeats of two vehicles has returned, and no send
\* of it succeeded.
C6_Witness ==
    /\ Returned /\ options.repeat = 2
    /\ Len(drivers) = 2
    /\ \A v \in DOMAIN drivers :
        drivers[v].pc = "done" /\ drivers[v].anyErr /\ ~drivers[v].anyOk

InterpCall == call.fn = "interpolateSegment"
ResolveCall == call.fn = "resolvePath"

\* C7 as stated: the generator yields exactly to.hops ticks, and 1 tick when
\* to.hops is missing.
C7_AsStated ==
    (InterpCall /\ call.state = "done") =>
        Len(call.yielded) = (IF call.to.hops = None THEN 1 ELSE call.to.hops[1])

\* C7 amended: interpolateSegment yields a finite sequence of exactly to.hops
\* ticks when to.hops is a positive integer, and exactly 1 tick when to.hops
\* is missing or 0; the hops of `from` has no influence on the length.
C7_TickCount ==
    InterpCall =>
        /\ Len(call.yielded) <= TicksInto(call.to)
        /\ call.state = "done" => Len(call.yielded) = TicksInto(call.to)

\* C7 witness: the generator has ended after 1 tick for to.hops = 0, with a
\* hops on `from` that differs.
C7_Witness ==
    /\ InterpCall /\ call.state = "done"
    /\ call.to.hops = Some(0) /\ call.from.hops = Some(MaxHops + 1)
    /\ Len(call.yielded) = 1

\* The rational q is from + t * (to - from) / n.
IsStepOf(q, from, to, t, n) == q.n * n = (from * n + t * (to - from)) * q.d

\* C8: tick t of interpolateSegment has position from + t * (to - from) / hops
\* in latitude and in longitude (hops counted as 1 when missing or 0), so the
\* last tick's position is exactly that of `to`; and in a vehicle's run the
\* log record of the last tick of every segment carries the position of the
\* segment's destination waypoint.
C8_TickPositions ==
    /\ InterpCall =>
        /\ \A t \in 1..Len(call.yielded) :
            /\ IsStepOf(call.yielded[t].lat, call.from.lat, call.to.lat, t,
                        TicksInto(call.to))
            /\ IsStepOf(call.yielded[t].lng, call.from.lng, call.to.lng, t,
                        TicksInto(call.to))
        /\ (call.state = "done" /\ call.yielded # << >>) =>
            /\ call.yielded[Len(call.yielded)].lat = [n |-> call.to.lat, d |-> 1]
            /\ call.yielded[Len(call.yielded)].lng = [n |-> call.to.lng, d |-> 1]
    /\ \A v \in DOMAIN drivers :
        LET d == drivers[v]
        IN  (d.pc = "pacing" /\ d.t = TicksInto(d.vPath[d.seg + 2])) =>
                /\ d.log[Len(d.log)].lat = [n |-> d.vPath[d.seg + 2].lat, d |-> 1]
                /\ d.log[Len(d.log)].lng = [n |-> d.vPath[d.seg + 2].lng, d |-> 1]

\* C8 witness: a driver paces the last of several ticks of its second segment,
\* and its last log record is at the destination.
C8_Witness ==
    \E v \in DOMAIN drivers :
        LET d == drivers[v]
        IN  /\ d.pc = "pacing" /\ d.seg = 1
            /\ d.t >= 2 /\ d.t = TicksInto(d.vPath[3])
            /\ d.log[Len(d.log)].lat = [n |-> d.vPath[3].lat, d |-> 1]
            /\ d.log[Len(d.log) - 1].lat.d # 1

AtLeastTwo(p) == p # << >> /\ Len(p[1]) >= 2
KeyMatches(sp, id) == sp.vehicle_id = <<id>> \/ sp.vehicleId = <<id>>

\* C9: resolvePath returns the vehicle's inline path unchanged whenever that
\* path has at least 2 waypoints, whatever the saved-path table holds for the
\* vehicle; a driver of such a vehicle runs on the inline path.
C9_InlinePathPreferred ==
    /\ (ResolveCall /\ call.state = "returned" /\ AtLeastTwo(call.vehicle.path)) =>
        call.result = call.vehicle.path
    /\ \A v \in DOMAIN drivers :
        (AtLeastTwo(Vehicle(v).path) /\ drivers[v].pc # "idle") =>
            drivers[v].vPath = Vehicle(v).path[1]

\* C9 witness: resolvePath has returned the inline path although the first
\* entry of the table matches the vehicle and has a path of 2 waypoints.
C9_Witness ==
    /\ ResolveCall /\ call.state = "returned"
    /\ AtLeastTwo(call.vehicle.path)
    /\ Len(call.savedPaths) >= 1
    /\ KeyMatches(call.savedPaths[1], call.vehicle.id)
    /\ AtLeastTwo(call.savedPaths[1].path)
    /\ call.result = call.vehicle.path

\* C10 as stated: without a usable inline path, when the table holds an entry
\* that matches the vehicle and has at least 2 waypoints, resolvePath returns
\* the path of such an entry, for any table.
C10_AsStated ==
    (/\ ResolveCall /\ call.state = "returned"
     /\ ~AtLeastTwo(call.vehicle.path)
     /\ \E i \in DOMAIN call.savedPaths :
            /\ KeyMatches(call.savedPaths[i], call.vehicle.id)
            /\ AtLeastTwo(call.savedPaths[i].path))
    => \E i \in DOMAIN call.savedPaths :
            /\ KeyMatches(call.savedPaths[i], call.vehicle.id)
            /\ AtLeastTwo(call.savedPaths[i].path)
            /\ call.result = call.savedPaths[i].path

\* C10 amended: without a usable inline path, resolvePath looks at the first
\* entry of the table whose key (vehicle_id or vehicleId) matches the vehicle:
\* it returns that entry's path when it has at least 2 waypoints, and no path
\* otherwise, also when a later matching entry has a usable path.
C10_FirstMatchDecides ==
    (ResolveCall /\ call.state = "returned" /\ ~AtLeastTwo(call.vehicle.path)) =>
        \A i \in DOMAIN call.savedPaths :
            (/\ KeyMatches(call.savedPaths[i], call.vehicle.id)
             /\ \A j \in 1..(i - 1) : ~KeyMatches(call.savedPaths[j], call.vehicle.id))
            => call.result = (IF AtLeastTwo(call.savedPaths[i].path)
                              THEN call.savedPaths[i].path
                              ELSE None)

\* C10 witness: two entries match the vehicle with different usable paths,
\* and the path of the first one is returned.
C10_Witness ==
    /\ ResolveCall /\ call.state = "returned"
    /\ ~AtLeastTwo(call.vehicle.path)
    /\ Len(call.savedPaths) = 2
    /\ \A i \in {1, 2} :
        /\ KeyMatches(call.savedPaths[i], call.vehicle.id)
        /\ AtLeastTwo(call.savedPaths[i].path)
    /\ call.savedPaths[1].path # call.savedPaths[2].path
    /\ call.result = call.savedPaths[1].path

\* C11: resolvePath returns no path for every vehicle whose inline path has
\* fewer than 2 waypoints (missing, empty or one waypoint) and for which no
\* entry of the saved-path table matches; and whatever the arguments, a path
\* of exactly one waypoint is never returned: a returned path has at least 2
\* waypoints, and no driver ever runs on a shorter one.
C11_NoPathWithoutMatch ==
    /\ (ResolveCall /\ call.state = "returned") =>
        /\ (/\ ~AtLeastTwo(call.vehicle.path)
            /\ \A i \in DOMAIN call.savedPaths :
                    ~KeyMatches(call.savedPaths[i], call.vehicle.id))
           => call.result = None
        /\ call.result # None => Len(call.result[1]) >= 2
    /\ \A v \in DOMAIN drivers :
        /\ drivers[v].pc \notin {"idle", "skipped"} => Len(drivers[v].vPath) >= 2
        /\ (/\ mainPc # "start"
            /\ ~AtLeastTwo(Vehicle(v).path)
            /\ \A i \in DOMAIN scenario.savedPaths :
                    ~KeyMatches(scenario.savedPaths[i], Vehicle(v).id))
           => drivers[v].pc = "skipped"

\* C11 witness: resolvePath has returned no path for a vehicle with an inline
\* path of one waypoint, given a table of two entries with usable paths that
\* are both for another vehicle.
C11_Witness ==
    /\ ResolveCall /\ call.state = "returned"
    /\ call.vehicle.path # None /\ Len(call.vehicle.path[1]) = 1
    /\ Len(call.savedPaths) = 2
    /\ \A i \in {1, 2} :
        /\ ~KeyMatches(call.savedPaths[i], call.vehicle.id)
        /\ AtLeastTwo(call.savedPaths[i].path)
    /\ call.result = None

BuildCall == call.fn = "buildPacket"

\* The uint16 a buffer holds at offset 40, read little-endian.
FlagsField(buf) == buf[40] + 256 * buf[41]

\* The value of an indicator flag's bit when the flag is set.
BitIf(x, bit) == IF x = Some(TRUE) THEN bit ELSE 0

\* C12: buildPacket returns exactly 72 bytes for every state whose wiper
\* level fits one byte (for the others it throws and returns nothing), and
\* the uint16 at offset 40 is the OR of the bit values of the indicator flags
\* that are set (eebl 1, lightBar 2, siren 4, flasher 8, foglight 16, drl 32;
\* the bits being distinct, their sum): 0 when none is set, 35 for eebl,
\* lightBar and drl; it is below 64 (bits 6..15 are 0), and the turn signals
\* and the wiper level do not enter it.
C12_PacketSizeAndFlags ==
    BuildCall =>
        /\ call.state \in {"called", "returned", "threw"}
        /\ call.state = "threw" => OrDefault(call.arg.v2x.wiper, 0) > 255
        /\ call.state = "returned" =>
            LET buf == call.result[1]
                x == call.arg.v2x
            IN  /\ DOMAIN buf = 0..71
                /\ Cardinality(DOMAIN buf) = 72
                /\ FlagsField(buf) =
                        BitIf(x.eebl, 1) + BitIf(x.lightBar, 2) + BitIf(x.siren, 4)
                        + BitIf(x.flasher, 8) + BitIf(x.foglight, 16) + BitIf(x.drl, 32)
                /\ FlagsField(buf) < 64
                /\ (\A f \in {x.eebl, x.lightBar, x.siren, x.flasher, x.foglight, x.drl} :
                        f # Some(TRUE)) => FlagsField(buf) = 0
                /\ (/\ x.eebl = Some(TRUE) /\ x.lightBar = Some(TRUE) /\ x.drl = Some(TRUE)
                    /\ x.siren # Some(TRUE) /\ x.flasher # Some(TRUE)
                    /\ x.foglight # Some(TRUE)) => FlagsField(buf) = 35

\* C12 witness: buildPacket has returned a buffer whose flags are 35, for a
\* state with eebl, lightBar and drl set, both turn signals on and a wiper
\* level of 3.
C12_Witness ==
    /\ BuildCall /\ call.state = "returned"
    /\ call.arg.v2x.eebl = Some(TRUE) /\ call.arg.v2x.lightBar = Some(TRUE)
    /\ call.arg.v2x.drl = Some(TRUE) /\ call.arg.v2x.siren = Some(FALSE)
    /\ call.arg.v2x.leftSignal = Some(TRUE) /\ call.arg.v2x.rightSignal = Some(TRUE)
    /\ call.arg.v2x.wiper = Some(3)
    /\ FlagsField(call.result[1]) = 35
    /\ call.result[1][42] = 3 /\ call.result[1][43] = 1 /\ call.result[1][71] = 0

\* The waitTime (seconds) written on a waypoint, 0 when there is none.
WaitOf(wp) == IF wp.waitTime = None THEN 0 ELSE wp.waitTime[1]

\* C13: a driver that waits before a segment does so because the segment's
\* departure waypoint has a positive waitTime, its timer is waitTime seconds
\* (1000 * waitTime ms), it has made no send attempt and no log record of that
\* segment yet, and every tick of the earlier segments has been sent, logged
\* and paced; and the step in which a driver makes the first send attempt of
\* a segment is taken from that wait when the departure waypoint has a
\* positive waitTime, and not from a wait when it has none or 0.
C13_WaitBeforeSegment ==
    /\ [](\A v \in DOMAIN drivers :
            LET d == drivers[v]
            IN  d.pc = "waiting" =>
                    /\ WaitOf(d.vPath[d.seg + 1]) > 0
                    /\ d.timer = Some([n |-> 1000 * WaitOf(d.vPath[d.seg + 1]), d |-> 1])
                    /\ d.attempts = TicksOfPathTo(d.vPath, d.seg + 1)
                    /\ d.logged = d.attempts
                    /\ d.paced = d.attempts)
    /\ [][\A v \in DOMAIN drivers :
            (/\ drivers'[v].totalAttempts = drivers[v].totalAttempts + 1
             /\ drivers'[v].t = 1)
            => IF WaitOf(drivers'[v].vPath[drivers'[v].seg + 1]) > 0
               THEN drivers[v].pc = "waiting" /\ drivers[v].seg = drivers'[v].seg
               ELSE drivers[v].pc # "waiting"]_vars

\* C13 witness: a driver waits 2 s before its second segment, with the tick
\* of its first segment sent, logged and paced.
C13_Witness ==
    \E v \in DOMAIN drivers :
        LET d == drivers[v]
        IN  /\ d.pc = "waiting" /\ d.seg = 1
            /\ d.timer = Some([n |-> 2000, d |-> 1])
            /\ d.paced = 1 /\ d.logged = 1 /\ d.attempts = 1

\* The speed a waypoint's v2x gives: its velocityKmh, 0 when there is none.
SpeedOfWp(wp) ==
    IF wp.v2x = None \/ wp.v2x[1].velocityKmh = None THEN 0
    ELSE wp.v2x[1].velocityKmh[1]

\* The v2x object x is that of waypoint wp: with the same properties, and
\* with no property at all when wp has no v2x.
IsV2xOfWp(x, wp) ==
    IF wp.v2x = None THEN \A f \in DOMAIN x : x[f] = None ELSE x = wp.v2x[1]

\* A flag of a waypoint's v2x is set.
FlagSetOnWp(wp, f) == wp.v2x # None /\ wp.v2x[1][f] = Some(TRUE)

\* The speed, the heading and the v2x of x (a tick or a state) are those of
\* the segment from `from` to `to`: the destination's metadata and the one
\* bearing of the segment.
CarriesMetaOf(x, from, to) ==
    /\ x.speed = SpeedOfWp(to)
    /\ IsV2xOfWp(x.v2x, to)
    /\ x.heading = <<"bearing", from.lat, from.lng, to.lat, to.lng>>

\* C14: every tick of a segment carries the destination waypoint's metadata.
\* Every tick interpolateSegment yields has the speed to.v2x.velocityKmh (0
\* when absent), the v2x of `to` (all off when absent) and the bearing from
\* `from` to `to`; in a vehicle's run the state of every send call, the
\* packet built from it (its speed bytes and its flags) and every log record
\* carry those values of the current segment's destination, whatever the
\* departure waypoint's v2x is.
C14_DestinationGoverns ==
    /\ InterpCall =>
        \A t \in 1..Len(call.yielded) :
            CarriesMetaOf(call.yielded[t], call.from, call.to)
    /\ \A v \in DOMAIN drivers :
        LET d == drivers[v]
            from == d.vPath[d.seg + 1]
            to == d.vPath[d.seg + 2]
        IN  /\ d.pc \in {"sending", "pacing"} =>
                /\ CarriesMetaOf(d.state[1], from, to)
                /\ d.state[1].v2x.wiper = None \/ d.state[1].v2x.wiper[1] <= 255 =>
                    LET buf == buildPacket(d.state[1])
                    IN  /\ \A k \in 0..7 : buf[16 + k] = <<"f64le", SpeedOfWp(to), k>>
                        /\ (FlagsField(buf) % 2 = 1) = FlagSetOnWp(to, "eebl")
            /\ d.pc = "pacing" =>
                LET rec == d.log[Len(d.log)]
                IN  /\ rec.speed = SpeedOfWp(to)
                    /\ rec.heading = <<"bearing", from.lat, from.lng, to.lat, to.lng>>
                    /\ \A f \in {"eebl", "lightBar", "siren", "flasher", "foglight",
                                  "drl", "leftSignal", "rightSignal"} :
                            rec[f] = FlagSetOnWp(to, f)
                    /\ rec.wiper = (IF to.v2x = None \/ to.v2x[1].wiper = None
                                    THEN 0 ELSE to.v2x[1].wiper[1])

\* C14 witness: a driver paces the second tick of a segment whose departure
\* waypoint has a v2x with a speed and a wiper level and whose destination
\* has a v2x with another speed and another wiper level; both records of the
\* segment carry the destination's values.
C14_Witness ==
    \E v \in DOMAIN drivers :
        LET d == drivers[v]
        IN  /\ d.pc = "pacing" /\ d.t = 2
            /\ d.vPath[d.seg + 1].v2x # None /\ d.vPath[d.seg + 2].v2x # None
            /\ SpeedOfWp(d.vPath[d.seg + 1]) # SpeedOfWp(d.vPath[d.seg + 2])
            /\ d.log[Len(d.log)].speed = SpeedOfWp(d.vPath[d.seg + 2])
            /\ d.log[Len(d.log) - 1].speed = SpeedOfWp(d.vPath[d.seg + 2])
            /\ d.log[Len(d.log)].heading = d.log[Len(d.log) - 1].heading

\* The rational q is 1000 / f.
IsIntervalOf(q, f) == q.n * f = 1000 * q.d

\* C15 as stated: the interval of every tick is 1000 / to.freq whenever
\* to.freq is present, and 1000 / the caller's frequency otherwise.
C15_AsStated ==
    InterpCall =>
        \A t \in 1..Len(call.yielded) :
            IsIntervalOf(call.yielded[t].interval,
                         IF call.to.freq = None THEN call.freq ELSE call.to.freq[1])

\* The frequency of the segment into `to`: to.freq when it is present and
\* not 0, the caller's frequency otherwise.
EffectiveFreq(to, freq) ==
    IF to.freq = None \/ to.freq[1] = 0 THEN freq ELSE to.freq[1]

\* C15 amended: the pacing interval of every tick of a segment is 1000 /
\* effective frequency ms, where the effective frequency is to.freq when
\* to.freq is present and not 0, and the caller's frequency when to.freq is
\* missing or 0; it is the same for all ticks of the segment, and it is the
\* delay of the sleep by which a driver paces the tick.
C15_PacingInterval ==
    /\ InterpCall =>
        \A t \in 1..Len(call.yielded) :
            /\ IsIntervalOf(call.yielded[t].interval, EffectiveFreq(call.to, call.freq))
            /\ call.yielded[t].interval = call.yielded[1].interval
    /\ \A v \in DOMAIN drivers :
        LET d == drivers[v]
        IN  d.pc = "pacing" =>
                /\ d.timer # None
                /\ IsIntervalOf(d.timer[1],
                                EffectiveFreq(d.vPath[d.seg + 2], options.freq))

\* C15 witness: the generator has yielded several ticks with the interval of
\* the caller's frequency 4 (250 ms) for a destination whose freq is 0.
C15_Witness ==
    /\ InterpCall /\ call.state = "done"
    /\ call.to.freq = Some(0) /\ call.freq = 4
    /\ Len(call.yielded) >= 2
    /\ \A t \in 1..Len(call.yielded) : call.yielded[t].interval = [n |-> 250, d |-> 1]

\* The number of runVehicle calls made so far for each vehicle.
CallsSoFar ==
    IF mainPc = "start" THEN 0
    ELSE IF Returned THEN options.repeat
    ELSE r + 1

\* C16: every driver that resolves a path creates its own transport handle:
\* one new sender per runVehicle call, different from every sender of every
\* other driver and of its own earlier calls; all its send attempts are made
\* on that sender while its socket is open; it calls close exactly once, after
\* its last tick has been sent, logged and paced, and never sends after that;
\* and when runSimulation has returned every sender created has been closed.
C16_OwnHandle ==
    \A v \in DOMAIN drivers :
        LET d == drivers[v]
        IN  /\ Resolved(v) # None =>
                /\ Len(d.created) = CallsSoFar
                /\ d.pc # "idle" => d.sender = Some(d.created[Len(d.created)])
            /\ \A i, j \in DOMAIN d.created : i # j => d.created[i] # d.created[j]
            /\ \A w \in DOMAIN drivers \ {v} :
                    \A i \in DOMAIN d.created, j \in DOMAIN drivers[w].created :
                        d.created[i] # drivers[w].created[j]
            /\ d.attempts > 0 => d.sentOn = d.sender
            /\ d.pc = "sending" => d.sock = "open"
            /\ ~d.lateSend
            /\ d.closeCalls <= 1
            /\ (d.closeCalls = 1) <=> (d.pc \in {"closing", "done"})
            /\ d.pc \in {"closing", "done"} =>
                    /\ d.attempts = TicksOfPath(d.vPath)
                    /\ d.settled = d.attempts
                    /\ d.logged = d.attempts
                    /\ d.paced = d.attempts
            /\ d.released = (IF d.pc \in {"waiting", "sending", "pacing", "closing"}
                             THEN Len(d.created) - 1 ELSE Len(d.created))
            /\ Returned => d.sock \in {"none", "closed"} /\ d.released = Len(d.created)

\* C16 witness: a run of two repeats of two vehicles has returned; each
\* driver has created two senders, the four are different, and all four have
\* been closed.
C16_Witness ==
    /\ Returned /\ options.repeat = 2
    /\ Len(drivers) = 2
    /\ \A v \in DOMAIN drivers :
        /\ Len(drivers[v].created) = 2 /\ drivers[v].released = 2
        /\ drivers[v].sock = "closed" /\ drivers[v].totalAttempts >= 2
    /\ Cardinality(Senders(drivers)) = 4

Hung(v) == v \in DOMAIN drivers /\ drivers[v].pc = "hung"

\* The run of vehicle w has come to its end, or hangs in a send of its own.
RunEnded(w) == w \in DOMAIN drivers /\ drivers[w].pc \in {"done", "skipped", "hung"}

\* C17: a send call that never completes stalls only its own vehicle. The
\* stalled driver never changes again: it makes no further send attempt and
\* appends no log record, and the stalled tick itself is not logged; the
\* repeat stays awaited, so the next repeat never starts and runSimulation
\* does not return; and every other vehicle of the scenario still comes to
\* the end of its own run (Done with all its ticks logged, or Skipped), unless
\* a send call of its own hangs.
C17_HangStallsOwnVehicle ==
    /\ [][\A v \in DOMAIN drivers :
            drivers[v].pc = "hung" => drivers'[v] = drivers[v]]_vars
    /\ [](\A v \in DOMAIN drivers :
            drivers[v].pc = "hung" =>
                /\ drivers[v].settled = drivers[v].attempts - 1
                /\ drivers[v].logged = drivers[v].attempts - 1
                /\ Len(drivers[v].log) = drivers[v].totalAttempts - 1
                /\ mainPc = "await"
                /\ \A w \in DOMAIN drivers :
                        drivers[w].pc = "done" =>
                            drivers[w].logged = TicksOfPath(drivers[w].vPath))
    /\ [][(\E v \in DOMAIN drivers : drivers[v].pc = "hung")
            => r' = r /\ mainPc' = mainPc]_vars
    /\ (\E v \in Slots : Hung(v)) ~> (\A w \in DOMAIN drivers : RunEnded(w))

\* C17 witness: in the first of two repeats one driver hangs in the send of
\* its second tick while the other driver is Done with its ticks logged.
C17_Witness ==
    /\ mainPc = "await" /\ r = 0 /\ options.repeat = 2
    /\ \E v, w \in DOMAIN drivers :
        /\ drivers[v].pc = "hung" /\ drivers[v].attempts = 2
        /\ Len(drivers[v].log) = 1
        /\ drivers[w].pc = "done" /\ drivers[w].logged >= 2

\* The number of records in the logs of the drivers 1 .. n.
RECURSIVE RecordsOfDrivers(_)
RecordsOfDrivers(n) == IF n = 0 THEN 0 ELSE Len(drivers[n].log) + RecordsOfDrivers(n - 1)

\* The line is the whole record: every field of it, the booleans as 0 or 1.
IsLineOf(line, rec) ==
    /\ Len(line) = 15
    /\ line[2] = rec.vehicleId /\ line[3] = rec.lat /\ line[4] = rec.lng
    /\ line[5] = rec.speed /\ line[6] = rec.heading
    /\ line[7] = (IF rec.eebl THEN 1 ELSE 0)
    /\ line[8] = (IF rec.lightBar THEN 1 ELSE 0)
    /\ line[9] = (IF rec.siren THEN 1 ELSE 0)
    /\ line[10] = (IF rec.flasher THEN 1 ELSE 0)
    /\ line[11] = (IF rec.foglight THEN 1 ELSE 0)
    /\ line[12] = (IF rec.drl THEN 1 ELSE 0)
    /\ line[13] = rec.wiper
    /\ line[14] = (IF rec.leftSignal THEN 1 ELSE 0)
    /\ line[15] = (IF rec.rightSignal THEN 1 ELSE 0)

\* The lines of the shared log (after its header) that vehicle v wrote.
LinesOf(v) == SelectSeq(Tail(stream), LAMBDA line : line[2] = Vehicle(v).id)

\* C18: a tick is processed atomically between its suspension points. The
\* step in which a pending send call completes is a step of that driver
\* alone: it ends at the driver's pacing sleep, no other driver changes in
\* it, and it appends the tick's record to the shared log as one whole line;
\* apart from the steps of runSimulation that start the drivers, every step
\* changes at most one driver. So the shared log is its header followed by
\* whole records only, as many as the drivers have logged, and the lines of
\* each vehicle in it are that vehicle's records in the order it logged them
\* (its tick order).
C18_TickAtomicLogInterleaved ==
    /\ [][\A v \in DOMAIN drivers :
            (drivers[v].pc = "sending" /\ drivers'[v] # drivers[v]) =>
                /\ drivers'[v].pc = "pacing"
                /\ drivers'[v].settled = drivers[v].settled + 1
                /\ Len(drivers'[v].log) = Len(drivers[v].log) + 1
                /\ Len(stream') = Len(stream) + 1
                /\ SubSeq(stream', 1, Len(stream)) = stream
                /\ IsLineOf(stream'[Len(stream')], drivers'[v].log[Len(drivers'[v].log)])
                /\ \A w \in DOMAIN drivers \ {v} : drivers'[w] = drivers[w]]_vars
    /\ [][(mainPc' = mainPc /\ r' = r) =>
            \A v, w \in DOMAIN drivers :
                (drivers'[v] # drivers[v] /\ drivers'[w] # drivers[w]) => v = w]_vars
    /\ [](mainPc # "none" =>
            /\ Len(stream) = 1 + RecordsOfDrivers(Len(drivers))
            /\ stream[1] = CsvHeader
            /\ \A v \in DOMAIN drivers :
                /\ Len(LinesOf(v)) = Len(drivers[v].log)
                /\ \A k \in 1..Len(drivers[v].log) :
                        IsLineOf(LinesOf(v)[k], drivers[v].log[k])
                /\ \A k \in 1..drivers[v].logged :
                        LET rec == drivers[v].log[Len(drivers[v].log) - drivers[v].logged + k]
                            tick == PathTicks(drivers[v].vPath, options.freq)[k]
                        IN  rec.lat = tick.lat /\ rec.lng = tick.lng)

\* C18 witness: the shared log holds a record of one vehicle between two
\* records of another vehicle.
C18_Witness ==
    /\ mainPc = "await"
    /\ \E i, j, k \in 2..Len(stream) :
        /\ i < j /\ j < k
        /\ stream[i][2] = stream[k][2]
        /\ stream[i][2] # stream[j][2]
        /\ stream[i][3] # stream[k][3]

\* C19: no driver changes the shared scenario. No step of a run changes the
\* vehicles, their paths and waypoints or the saved-path table, whatever the
\* repeat count, the interleaving and the outcomes of the sends; so in every
\* repeat each driver runs on the path that resolvePath gives for the
\* scenario as it was parsed, and the records a vehicle logs in a repeat are
\* those it logged in the repeat before.
C19_ScenarioReadOnly ==
    /\ [][scenario' = scenario]_vars
    /\ [](\A v \in DOMAIN drivers :
            LET d == drivers[v]
            IN  /\ (Resolved(v) # None /\ d.pc # "idle") => d.vPath = Resolved(v)[1]
                /\ (Resolved(v) = None /\ d.pc # "idle") => d.pc = "skipped"
                /\ Resolved(v) # None =>
                    LET n == TicksOfPath(Resolved(v)[1])
                    IN  \A k \in 1..Len(d.log) : k > n => d.log[k] = d.log[k - n])

\* C19 witness: a run of two repeats has returned with a vehicle of two
\* segments that had failed sends; the vehicle is still the one of the fleet,
\* and its records of the second repeat are those of the first.
C19_Witness ==
    /\ Returned /\ options.repeat = 2
    /\ \E v \in DOMAIN drivers :
        /\ \E i \in DOMAIN Fleet : Vehicle(v) = Fleet[i]
        /\ Len(drivers[v].vPath) = 3
        /\ drivers[v].anyErr /\ drivers[v].anyOk
        /\ Len(drivers[v].log) = 2 * TicksOfPath(drivers[v].vPath)
        /\ drivers[v].log[1] = drivers[v].log[1 + TicksOfPath(drivers[v].vPath)]
        /\ drivers[v].log[1] # drivers[v].log[2]

\* The records of a log whose wiper level does not fit one byte.
NotEncodable(log) == {k \in DOMAIN log : log[k].wiper > 255}

\* C20: a failure raised while the packet of a tick is encoded inside send
\* is absorbed like a transport error. No driver and no run ever rejects;
\* for a tick whose wiper level does not fit one byte nothing is handed to
\* the socket (the driver never awaits a send for it, and its send attempts
\* are the packets transmitted plus the records logged with such a level),
\* its record is logged in the same step, the driver then sleeps the tick's
\* pacing interval, and goes on: when it is Done every tick of its path has
\* been logged and paced.
C20_EncodeFailureAbsorbed ==
    /\ mainPc # "exited"
    /\ \A v \in DOMAIN drivers :
        LET d == drivers[v]
        IN  /\ d.pc # "rejected"
            /\ d.totalAttempts = d.transmitted + Cardinality(NotEncodable(d.log))
            /\ (d.pc \in {"sending", "pacing"} /\ d.state[1].v2x.wiper # None
                    /\ d.state[1].v2x.wiper[1] > 255) =>
                /\ d.pc = "pacing"
                /\ d.logged = d.attempts
                /\ d.log[Len(d.log)].wiper = d.state[1].v2x.wiper[1]
                /\ d.timer = Some(SegTicks(d, options.freq)[d.t].interval)
            /\ d.pc = "done" =>
                /\ d.logged = TicksOfPath(d.vPath)
                /\ d.paced = TicksOfPath(d.vPath)

\* C20 witness: a driver awaits the send of its second tick after the
\* encoding of its first tick failed: the first tick is logged and paced and
\* only the second one has been handed to the socket.
C20_Witness ==
    \E v \in DOMAIN drivers :
        LET d == drivers[v]
        IN  /\ d.pc = "sending" /\ d.attempts = 2 /\ d.paced = 1
            /\ d.totalAttempts = 2 /\ d.transmitted = 1
            /\ Len(d.log) = 1 /\ d.log[1].wiper = 256
            /\ ~d.anyOk

====
